---- MODULE Spec2Model ----
(***************************************************************************)
(* The mines game of src/mines.py: the per-player registry active_games,   *)
(* the start command, the mines-count modal, and the handlers of a         *)
(* MinesView (tile click, cash out, exit, timeout), each cut into the      *)
(* segments that run without suspension between two awaits.                *)
(***************************************************************************)
EXTENDS Integers, Sequences, FiniteSets, Bags, TLC

(***************************************************************************)
(* Python floats.  calculate_multiplier and int(bet * multiplier) work on  *)
(* IEEE-754 doubles.  A double is modelled as [m, e], the value m * 2^e    *)
(* with m a natural number below 2^53; m is held as a little-endian        *)
(* sequence of 12-bit limbs because it does not fit a machine integer of   *)
(* the checker.  Every operation rounds once, to nearest, ties to even.    *)
(***************************************************************************)
LimbBits == 6 + 6
Limb == 2 ^ LimbBits
MantissaBits == 50 + 3

RECURSIVE BigFromInt(_)
BigFromInt(n) == IF n = 0 THEN << >> ELSE << n % Limb >> \o BigFromInt(n \div Limb)

RECURSIVE BigToInt(_)
BigToInt(a) == IF a = << >> THEN 0 ELSE a[1] + Limb * BigToInt(Tail(a))

RECURSIVE BigNorm(_)
BigNorm(a) ==
    IF a = << >> THEN a
    ELSE IF a[Len(a)] = 0 THEN BigNorm(SubSeq(a, 1, Len(a) - 1)) ELSE a

RECURSIVE BitLenInt(_)
BitLenInt(n) == IF n = 0 THEN 0 ELSE 1 + BitLenInt(n \div 2)

BigBitLen(a) == IF a = << >> THEN 0 ELSE LimbBits * (Len(a) - 1) + BitLenInt(a[Len(a)])

RECURSIVE ColSum(_, _, _, _)
ColSum(a, b, n, i) ==
    IF i > Len(a) \/ i > n THEN 0
    ELSE (IF n + 1 - i <= Len(b) THEN a[i] * b[n + 1 - i] ELSE 0) + ColSum(a, b, n, i + 1)

RECURSIVE CarryCols(_, _, _, _, _)
CarryCols(a, b, n, last, carry) ==
    IF n > last THEN BigFromInt(carry)
    ELSE LET t == ColSum(a, b, n, 1) + carry
         IN  << t % Limb >> \o CarryCols(a, b, n + 1, last, t \div Limb)

BigMul(a, b) ==
    IF a = << >> \/ b = << >> THEN << >>
    ELSE BigNorm(CarryCols(a, b, 1, Len(a) + Len(b) - 1, 0))

RECURSIVE BigAddInt(_, _)
BigAddInt(a, c) ==
    IF c = 0 THEN a
    ELSE IF a = << >> THEN BigFromInt(c)
    ELSE << (a[1] + c) % Limb >> \o BigAddInt(Tail(a), (a[1] + c) \div Limb)

\* a * 2^n
BigShl(a, n) ==
    IF a = << >> THEN a
    ELSE BigMul([i \in 1..(n \div LimbBits) |-> 0] \o << 2 ^ (n % LimbBits) >>, a)

\* floor(a / 2^n)
BigShr(a, n) ==
    LET drop == n \div LimbBits
        r    == n % LimbBits
        rest == IF drop >= Len(a) THEN << >> ELSE SubSeq(a, drop + 1, Len(a))
        hi(i) == IF i < Len(rest) THEN (rest[i + 1] % (2 ^ r)) * (2 ^ (LimbBits - r)) ELSE 0
    IN  BigNorm([i \in 1..Len(rest) |-> (rest[i] \div (2 ^ r)) + hi(i)])

\* bit n (0 = least significant) of a
BigBit(a, n) ==
    LET i == n \div LimbBits + 1
    IN  IF i > Len(a) THEN 0 ELSE (a[i] \div (2 ^ (n % LimbBits))) % 2

\* whether any of the n lowest bits of a is set
BigLowBits(a, n) == BigShl(BigShr(a, n), n) # a

\* <<quotient, remainder>> of a by a small divisor d
RECURSIVE BigDivSmall(_, _, _)
BigDivSmall(a, d, i) ==
    IF i = 0 THEN << << >>, 0 >>
    ELSE LET up  == BigDivSmall(a, d, i - 1)
             cur == up[2] * Limb + a[Len(a) + 1 - i]
         IN  << << cur \div d >> \o up[1], cur % d >>

BigDiv(a, d) == LET qr == BigDivSmall(a, d, Len(a)) IN << BigNorm(qr[1]), qr[2] >>

RECURSIVE BigCmp(_, _, _)
BigCmp(a, b, i) ==
    IF i = 0 THEN 0
    ELSE IF a[i] < b[i] THEN -1 ELSE IF a[i] > b[i] THEN 1 ELSE BigCmp(a, b, i - 1)

\* -1, 0, 1 as a <, =, > b
BigCompare(a, b) ==
    IF Len(a) < Len(b) THEN -1 ELSE IF Len(a) > Len(b) THEN 1 ELSE BigCmp(a, b, Len(a))

\* The double nearest to (n + f) * 2^e, 0 <= f < 1, sticky telling f > 0
\* (round to nearest, ties to even).
RoundToDouble(n, e, sticky) ==
    LET len == BigBitLen(n)
        sh  == len - MantissaBits
    IN  IF sh <= 0 THEN [m |-> n, e |-> e]
        ELSE LET q     == BigShr(n, sh)
                 half  == BigBit(n, sh - 1) = 1
                 below == sticky \/ BigLowBits(n, sh - 1)
                 up    == half /\ (below \/ BigBit(q, 0) = 1)
             IN  [m |-> IF up THEN BigAddInt(q, 1) ELSE q, e |-> e + sh]

FloatFromInt(n) == [m |-> BigFromInt(n), e |-> 0]

FloatMul(x, y) == RoundToDouble(BigMul(x.m, y.m), x.e + y.e, FALSE)

\* a / b for small positive integers a, b: the quotient is taken with 60
\* extra bits and the remainder kept as the sticky bit
FloatDivInt(a, b) ==
    LET qr == BigDiv(BigShl(BigFromInt(a), 60), b)
    IN  RoundToDouble(qr[1], -60, qr[2] # 0)

\* x ** k for an integer k >= 1: the exact power, rounded once
RECURSIVE BigPow(_, _)
BigPow(a, k) == IF k = 0 THEN << 1 >> ELSE BigMul(a, BigPow(a, k - 1))

FloatPow(x, k) == RoundToDouble(BigPow(x.m, k), x.e * k, FALSE)

\* int(x): truncation toward zero of a non-negative double, as a big number
FloatTruncBig(x) == IF x.e >= 0 THEN BigShl(x.m, x.e) ELSE BigShr(x.m, 0 - x.e)

FloatToInt(x) == BigToInt(FloatTruncBig(x))

\* -1, 0, 1 as x <, =, > y
FloatCompare(x, y) ==
    LET e == IF x.e < y.e THEN x.e ELSE y.e
    IN  BigCompare(BigShl(x.m, x.e - e), BigShl(y.m, y.e - e))

FloatMin(x, y) == IF FloatCompare(y, x) < 0 THEN y ELSE x

\* the smallest representation of a double's value (m odd or zero)
RECURSIVE FloatCanon(_)
FloatCanon(x) ==
    IF x.m = << >> THEN [m |-> << >>, e |-> 0]
    ELSE IF BigBit(x.m, 0) = 0 THEN FloatCanon([m |-> BigShr(x.m, 1), e |-> x.e + 1])
    ELSE x



(***************************************************************************)
(* Constants of src/mines.py.                                              *)
(***************************************************************************)
MIN_BET == 10
MAX_BET == 500000
DEFAULT_BET == 50
GRID_WIDTH == 3
GRID_HEIGHT == 3
TOTAL_TILES == GRID_WIDTH * GRID_HEIGHT
\* a maximum that leaves no safe tile
MAX_MINES_all == TOTAL_TILES
\* Must leave at least one safe tile
MAX_MINES == TOTAL_TILES - 1
MIN_MINES == 1

(***************************************************************************)
(* Bounds of the model and the inputs the environment draws from.          *)
(***************************************************************************)
MaxSessions == 2
MaxTasks == 2
MaxViews == 1
InitialBalance == 120

\* the one player whose sessions are followed (ctx.author.id)
Users == {1}
SessionIds == 1..MaxSessions

\* what the bet option of /mines parses to: "all", an amount, nothing (the
\* parser returns None) or an exception of the parser
BetInputs ==
    { [kind |-> "all", n |-> 0], [kind |-> "amount", n |-> 100],
      [kind |-> "amount", n |-> 5],
      [kind |-> "amount", n |-> 600000], [kind |-> "none", n |-> 0],
      [kind |-> "raise", n |-> 0] }

\* the one character typed into the modal (max_length = 1)
ModalInputs == {"0", "3", "7", "8", "9", "x"}

Tiles == (0..(GRID_WIDTH - 1)) \X (0..(GRID_HEIGHT - 1))
\* the tiles the player clicks on
ClickTiles == {<<0, 0>>, <<1, 0>>, <<2, 0>>}
\* the samples random.sample is taken to return: one for each mines count the
\* modal is given, and the whole range for a sample of TOTAL_TILES positions
Placements == {2..4, 2..8, 1..8, 0..8}

(***************************************************************************)
(* calculate_multiplier and the potential win, in doubles.                 *)
(***************************************************************************)
\* a house edge of 6%
house_edge_94 == FloatDivInt(94, 100)

house_edge == FloatDivInt(95, 100)
\* a cap of 20
max_multiplier_20 == FloatFromInt(20)
max_multiplier == FloatFromInt(1000)

\* the base inverted: (Total Tiles - Mines) / Total Tiles
calculate_multiplier_inv(safe_tiles, mines_count, tiles_revealed) ==
    IF tiles_revealed = 0 THEN FloatFromInt(1)
    ELSE LET base == FloatDivInt(TOTAL_TILES - mines_count, TOTAL_TILES)
             multiplier == FloatMul(FloatPow(base, tiles_revealed), house_edge)
         IN  FloatCanon(FloatMin(multiplier, max_multiplier))

calculate_multiplier(safe_tiles, mines_count, tiles_revealed) ==
    IF tiles_revealed = 0 THEN FloatFromInt(1)
    ELSE LET base == FloatDivInt(TOTAL_TILES, TOTAL_TILES - mines_count)
             multiplier == FloatMul(FloatPow(base, tiles_revealed), house_edge)
         IN  FloatCanon(FloatMin(multiplier, max_multiplier))

\* int(self.bet * self.current_multiplier)
potential_win_of(bet, multiplier) == FloatToInt(FloatMul(FloatFromInt(bet), multiplier))

(***************************************************************************)
(* State.                                                                  *)
(***************************************************************************)
VARIABLES
    active_games,  \* the dict active_games: user id -> game
    games,         \* MinesGame objects, by the id of the start command that made them
    views,         \* MinesView objects, by the id of the modal that made them
    modals,        \* MinesCountModal of each start command: "none", "open", "submitted"
    debits,        \* the bet each start command debited (0: none yet)
    cash,          \* economy_system's balance of each user
    ledger,        \* per session, the credits issued to the economy system, in order
    stats,         \* per session, the rows record_mines_stats wrote, in order
    tasks,         \* the coroutines suspended at an await (a bag)
    pop_log,       \* history: which view's handler removed which game's entry
    exit_log,      \* history: the exits accepted on a view that was not over
    outage         \* the calls that raise: "none", or the "debit"s or the "credit"s
                   \* of economy_system, or the "stats" database

vars == << active_games, games, views, modals, debits, cash, ledger, stats, tasks,
           pop_log, exit_log, outage >>

NoView ==
    [ exists |-> FALSE, user_id |-> 0, game |-> 0, bet |-> 0, mines_count |-> 0,
      mines |-> {}, revealed |-> {}, tiles_revealed |-> 0,
      current_multiplier |-> FloatFromInt(1), potential_win |-> 0,
      game_over |-> FALSE, won |-> FALSE, wired |-> FALSE, timer |-> "off" ]

EmptyDict == [x \in {} |-> 0]

NoGame == [ exists |-> FALSE, author_id |-> 0, view |-> 0, bet_amount |-> 0 ]

\* the module is loaded (active_games = {}) while the calls `down` raise
Boot(down) ==
    /\ active_games = EmptyDict
    /\ games = [g \in SessionIds |-> NoGame]
    /\ views = [s \in SessionIds |-> NoView]
    /\ modals = [s \in SessionIds |-> "none"]
    /\ debits = [s \in SessionIds |-> 0]
    /\ cash = [u \in Users |-> InitialBalance]
    /\ ledger = [s \in SessionIds |-> << >>]
    /\ stats = [s \in SessionIds |-> << >>]
    /\ tasks = EmptyBag
    /\ pop_log = {}
    /\ exit_log = {}
    /\ outage = down

Init == Boot("none")

(***************************************************************************)
(* Helpers.                                                                *)
(***************************************************************************)
\* a suspended coroutine: where it resumes (pc), the user and the session or
\* view it runs for, and its locals: a number n, a tag arg, late, whether
\* the view was already over when the handler was entered, and cash, the
\* balance get_cash has read for it
Task(pc, user, s, n, arg, late) ==
    [pc |-> pc, user |-> user, s |-> s, n |-> n, arg |-> arg, late |-> late, cash |-> 0]

Spawn(t) == tasks' = tasks (+) SetToBag({t})
Finish(t) == tasks' = tasks (-) SetToBag({t})
Become(t, u) == tasks' = (tasks (-) SetToBag({t})) (+) SetToBag({u})
Running(pc) == {t \in BagToSet(tasks) : t.pc = pc}
CanSpawn == BagCardinality(tasks) < MaxTasks
InFlight(pc) == BagCardinality([t \in Running(pc) |-> tasks[t]])

safe_tiles(v) == TOTAL_TILES - v.mines_count

\* whether economy_system.add_cash(user_id, amount, ...) raises: in an outage,
\* and when a debit is above the balance (InsufficientFunds)
add_cash_raises(user, amount) ==
    \/ amount > 0 /\ outage = "credit"
    \/ amount < 0 /\ outage = "debit"
    \/ amount < 0 /\ cash[user] + amount < 0

\* a ledger that debits whatever the balance is
add_cash_unchecked(user, amount) ==
    IF (amount > 0 /\ outage = "credit") \/ (amount < 0 /\ outage = "debit")
    THEN UNCHANGED cash
    ELSE cash' = [cash EXCEPT ![user] = @ + amount]

\* economy_system.add_cash(user_id, amount, ...): the balance moves by amount,
\* or the call raises and the balance is as it was
add_cash(user, amount) ==
    IF add_cash_raises(user, amount)
    THEN UNCHANGED cash
    ELSE cash' = [cash EXCEPT ![user] = @ + amount]

\* history: a credit issued for session s on path `path`, with what the view
\* v read when the call was made, and whether the call returned (ok) or raised
log_credit(s, amount, path, v) ==
    ledger' = [ledger EXCEPT ![s] = Append(@,
        [ path |-> path, amount |-> amount, game_over |-> v.game_over,
          tiles_revealed |-> v.tiles_revealed, potential_win |-> v.potential_win,
          ok |-> outage # "credit" ])]

\* update_user_balance(user_id, amount) called for session s: a positive
\* amount is credited, a negative one debited, zero only reads the balance;
\* an exception of add_cash is logged and 0 returned, so the caller goes on
update_user_balance(user, s, amount, path, v) ==
    IF amount > 0 THEN add_cash(user, amount) /\ log_credit(s, amount, path, v)
    ELSE IF amount < 0 THEN add_cash(user, amount) /\ UNCHANGED ledger
    ELSE UNCHANGED << cash, ledger >>

\* record_mines_stats(user_id, bet, win, mines_count, tiles_revealed)
\* the row is written, or the database raises: that is logged, nothing more
record_mines_stats(s, bet, win, mines_count, tiles_revealed) ==
    IF outage = "stats"
    THEN UNCHANGED stats
    ELSE stats' = [stats EXCEPT ![s] = Append(@,
             [ bet |-> bet, win |-> win, mines_count |-> mines_count,
               tiles_revealed |-> tiles_revealed ])]

\* if str(self.user_id) in active_games: active_games.pop(str(self.user_id), None)
pop_active_game(s, late) ==
    LET user == views[s].user_id
    IN  IF user \in DOMAIN active_games
        THEN /\ active_games' = [x \in DOMAIN active_games \ {user} |-> active_games[x]]
             /\ pop_log' = pop_log \cup
                    {[by |-> s, game |-> active_games[user], late |-> late]}
        ELSE UNCHANGED << active_games, pop_log >>


(***************************************************************************)
(* /mines: MinesCog.mines.                                                 *)
(***************************************************************************)
Allocated == {s \in SessionIds : debits[s] # 0}
NextId == Cardinality(Allocated) + 1

\* the command up to its first await: the registry check, then get_cash
mines(user, bet) ==
    /\ CanSpawn
    /\ Cardinality(Allocated) + InFlight("mines_cash") + InFlight("mines_bet") < MaxSessions
    /\ IF user \in DOMAIN active_games
       THEN UNCHANGED tasks
       ELSE Spawn(Task("mines_cash", user, 0, bet.n, bet.kind, FALSE))
    /\ UNCHANGED << outage, active_games, games, views, modals, debits, cash, ledger, stats,
                    pop_log, exit_log >>

\* the bet the command goes on with (0: it answers "enter a valid bet" and stops)
parse_bet(kind, n, balance) ==
    CASE kind = "all"    -> balance
      [] kind = "amount" -> n
      [] kind = "raise"  -> DEFAULT_BET
      [] OTHER           -> 0

\* a validation without the minimum
bet_rejected_nomin(kind, bet_amount, balance) ==
    \/ kind = "none"
    \/ bet_amount > MAX_BET
    \/ bet_amount > balance

bet_rejected(kind, bet_amount, balance) ==
    \/ kind = "none"
    \/ bet_amount < MIN_BET
    \/ bet_amount > MAX_BET
    \/ bet_amount > balance

\* economy_system.get_cash reads the balance for the suspended command; the
\* command resumes with it later
get_cash(t) ==
    /\ t.pc = "mines_cash"
    /\ Become(t, [t EXCEPT !.pc = "mines_bet", !.cash = cash[t.user]])
    /\ UNCHANGED << outage, active_games, games, views, modals, debits, cash, ledger, stats,
                    pop_log, exit_log >>

\* a command that sends the modal without debiting the bet
mines_debit_free(t) ==
    /\ t.pc = "mines_bet"
    /\ LET balance    == t.cash
           bet_amount == parse_bet(t.arg, t.n, balance)
           s          == NextId
       IN  IF bet_rejected(t.arg, bet_amount, balance)
           THEN Finish(t)
           ELSE Become(t, Task("mines_modal", t.user, s, bet_amount, "", FALSE))
    /\ UNCHANGED << outage, active_games, games, views, modals, debits, cash, ledger, stats,
                    pop_log, exit_log >>

\* a command that goes on to the modal whether add_cash raised or not
mines_debit_on(t) ==
    /\ t.pc = "mines_bet"
    /\ LET balance    == t.cash
           bet_amount == parse_bet(t.arg, t.n, balance)
           s          == NextId
       IN  IF bet_rejected(t.arg, bet_amount, balance)
           THEN /\ Finish(t)
                /\ UNCHANGED << debits, cash >>
           ELSE /\ add_cash(t.user, 0 - bet_amount)
                /\ debits' = [debits EXCEPT ![s] = bet_amount]
                /\ Become(t, Task("mines_modal", t.user, s, bet_amount, "", FALSE))
    /\ UNCHANGED << outage, active_games, games, views, modals, ledger, stats, pop_log, exit_log >>

\* get_cash has returned: the bet is parsed and validated against the balance
\* it read, then debited; an exception of that add_cash leaves the command
mines_debit(t) ==
    /\ t.pc = "mines_bet"
    /\ LET balance    == t.cash
           bet_amount == parse_bet(t.arg, t.n, balance)
           s          == NextId
       IN  IF bet_rejected(t.arg, bet_amount, balance)
           THEN /\ Finish(t)
                /\ UNCHANGED << debits, cash >>
           ELSE IF add_cash_raises(t.user, 0 - bet_amount)
           THEN /\ Finish(t)
                /\ add_cash(t.user, 0 - bet_amount)
                /\ UNCHANGED debits
           ELSE /\ add_cash(t.user, 0 - bet_amount)
                /\ debits' = [debits EXCEPT ![s] = bet_amount]
                /\ Become(t, Task("mines_modal", t.user, s, bet_amount, "", FALSE))
    /\ UNCHANGED << outage, active_games, games, views, modals, ledger, stats, pop_log, exit_log >>

\* the debit has returned and the modal was sent: the game is registered
mines_register(t) ==
    /\ t.pc = "mines_modal"
    /\ modals' = [modals EXCEPT ![t.s] = "open"]
    /\ games' = [games EXCEPT ![t.s] =
                    [exists |-> TRUE, author_id |-> t.user, view |-> 0, bet_amount |-> 0]]
    /\ active_games' = [x \in DOMAIN active_games \cup {t.user} |->
                            IF x = t.user THEN t.s ELSE active_games[x]]
    /\ Finish(t)
    /\ UNCHANGED << outage, views, debits, cash, ledger, stats, pop_log, exit_log >>

\* send_modal raised: the bet is refunded and no game is registered
mines_modal_failed(t) ==
    /\ t.pc = "mines_modal"
    /\ add_cash(t.user, t.n)
    /\ log_credit(t.s, t.n, "start_refund", NoView)
    /\ Finish(t)
    /\ UNCHANGED << outage, active_games, games, views, modals, debits, stats, pop_log, exit_log >>

(***************************************************************************)
(* MinesCountModal.callback, MinesCog.start_game, MinesGame.setup and      *)
(* MinesView.__init__.                                                     *)
(***************************************************************************)
Digits == << "0", "1", "2", "3", "4", "5", "6", "7", "8", "9" >>
\* int(text) of a one-character text: its value, or -1 for a ValueError
int(text) ==
    IF \E d \in 1..Len(Digits) : Digits[d] = text
    THEN (CHOOSE d \in 1..Len(Digits) : Digits[d] = text) - 1
    ELSE -1

\* random.sample(range(n), k): the sets of k distinct positions
random_sample(n, k) == {S \in SUBSET (0..(n - 1)) : Cardinality(S) = k}

\* a placement that takes the row of a position from its remainder too
setup_mines_diagonal(mine_positions) ==
    {<< pos % GRID_WIDTH, pos % GRID_WIDTH >> : pos \in mine_positions}

\* _setup_mines: position pos is the tile (pos % GRID_WIDTH, pos // GRID_WIDTH)
setup_mines(mine_positions) ==
    {<< pos % GRID_WIDTH, pos \div GRID_WIDTH >> : pos \in mine_positions}

\* MinesView(game_ref, user_id, bet_amount, mines_count)
MinesView(game_ref, user_id, bet_amount, mines_count, mine_positions) ==
    [ exists |-> TRUE, user_id |-> user_id, game |-> game_ref, bet |-> bet_amount,
      mines_count |-> mines_count, mines |-> setup_mines(mine_positions),
      revealed |-> {}, tiles_revealed |-> 0,
      current_multiplier |-> FloatFromInt(1), potential_win |-> bet_amount,
      game_over |-> FALSE, won |-> FALSE, wired |-> FALSE, timer |-> "armed" ]

\* whether submitting `text` to the modal of session s builds a view
starts_view(s, text) ==
    /\ int(text) >= MIN_MINES
    /\ int(text) <= MAX_MINES
    /\ games[s].author_id \in DOMAIN active_games

\* the modal of session s is submitted with `text`
modal_callback(s, text) ==
    /\ modals[s] = "open"
    /\ CanSpawn
    /\ starts_view(s, text) => Cardinality({x \in SessionIds : views[x].exists}) < MaxViews
    /\ modals' = [modals EXCEPT ![s] = "submitted"]
    /\ LET user        == games[s].author_id
           bet_amount  == debits[s]
           mines_count == int(text)
       IN  IF mines_count < MIN_MINES \/ mines_count > MAX_MINES
           THEN \* not a number, or out of range: the bet is refunded
                /\ update_user_balance(user, s, bet_amount, "modal_refund", NoView)
                /\ UNCHANGED << games, views, tasks >>
           ELSE IF user \notin DOMAIN active_games
           THEN \* start_game: "Game session expired"
                /\ add_cash(user, bet_amount)
                /\ log_credit(s, bet_amount, "expired_refund", NoView)
                /\ UNCHANGED << games, views, tasks >>
           ELSE \* start_game: game.setup builds the view and sends it
                LET g == active_games[user]
                IN  \E mine_positions \in random_sample(TOTAL_TILES, mines_count) \cap Placements :
                        /\ views' = [views EXCEPT ![s] =
                               MinesView(g, user, bet_amount, mines_count, mine_positions)]
                        /\ games' = [games EXCEPT ![g].view = s, ![g].bet_amount = bet_amount]
                        /\ Spawn(Task("start_wire", user, g, 0, "", FALSE))
                        /\ UNCHANGED << cash, ledger >>
    /\ UNCHANGED << outage, active_games, debits, stats, pop_log, exit_log >>

\* start_game after game.setup: the tile callbacks of game.view are set
start_wire(t) ==
    /\ t.pc = "start_wire"
    /\ views' = [views EXCEPT ![games[t.s].view].wired = TRUE]
    /\ Finish(t)
    /\ UNCHANGED << outage, active_games, games, modals, debits, cash, ledger, stats,
                    pop_log, exit_log >>
(***************************************************************************)
(* MinesView: the handlers of a view.                                      *)
(***************************************************************************)
Min(a, b) == IF a < b THEN a ELSE b

\* _handle_victory up to its first await, on the view as the click left it
handle_victory(s, v) ==
    LET won_view     == [v EXCEPT !.game_over = TRUE, !.won = TRUE]
        final_payout == Min(v.potential_win, v.bet * 1000)
    IN  /\ views' = [views EXCEPT ![s] = won_view]
        /\ update_user_balance(v.user_id, s, final_payout, "win", won_view)
        /\ Spawn(Task("victory_stats", v.user_id, s, final_payout, "", FALSE))
        /\ UNCHANGED stats

\* a click whose loss shows the clicked mine only
process_tile_click_one(sc, tile) ==
    /\ views[sc].wired
    /\ CanSpawn
    /\ LET s == games[views[sc].game].view
           v == views[s]
       IN  IF v.game_over \/ tile \in v.revealed
           THEN UNCHANGED << views, cash, ledger, stats, tasks >>
           ELSE IF tile \in v.mines
           THEN /\ views' = [views EXCEPT ![s] =
                       [v EXCEPT !.revealed = @ \cup {tile},
                                 !.game_over = TRUE, !.won = FALSE]]
                /\ record_mines_stats(s, v.bet, 0, v.mines_count, v.tiles_revealed)
                /\ Spawn(Task("click_pop", v.user_id, s, 0, "", FALSE))
                /\ UNCHANGED << cash, ledger >>
           ELSE LET k          == v.tiles_revealed + 1
                    multiplier == calculate_multiplier(safe_tiles(v), v.mines_count, k)
                    safe_view  == [v EXCEPT !.revealed = @ \cup {tile},
                                            !.tiles_revealed = k,
                                            !.current_multiplier = multiplier,
                                            !.potential_win = potential_win_of(v.bet, multiplier)]
                IN  IF k = safe_tiles(v)
                    THEN handle_victory(s, safe_view)
                    ELSE /\ views' = [views EXCEPT ![s] = safe_view]
                         /\ UNCHANGED << cash, ledger, stats, tasks >>
    /\ UNCHANGED << outage, active_games, games, modals, debits, pop_log, exit_log >>

\* a click that does not look whether the tile is already revealed
process_tile_click_again(sc, tile) ==
    /\ views[sc].wired
    /\ CanSpawn
    /\ LET s == games[views[sc].game].view
           v == views[s]
       IN  IF v.game_over
           THEN UNCHANGED << views, cash, ledger, stats, tasks >>
           ELSE IF tile \in v.mines
           THEN /\ views' = [views EXCEPT ![s] =
                       [v EXCEPT !.revealed = @ \cup {tile} \cup v.mines,
                                 !.game_over = TRUE, !.won = FALSE]]
                /\ record_mines_stats(s, v.bet, 0, v.mines_count, v.tiles_revealed)
                /\ Spawn(Task("click_pop", v.user_id, s, 0, "", FALSE))
                /\ UNCHANGED << cash, ledger >>
           ELSE LET k          == v.tiles_revealed + 1
                    multiplier == calculate_multiplier(safe_tiles(v), v.mines_count, k)
                    safe_view  == [v EXCEPT !.revealed = @ \cup {tile},
                                            !.tiles_revealed = k,
                                            !.current_multiplier = multiplier,
                                            !.potential_win = potential_win_of(v.bet, multiplier)]
                IN  IF k = safe_tiles(v)
                    THEN handle_victory(s, safe_view)
                    ELSE /\ views' = [views EXCEPT ![s] = safe_view]
                         /\ UNCHANGED << cash, ledger, stats, tasks >>
    /\ UNCHANGED << outage, active_games, games, modals, debits, pop_log, exit_log >>

\* a click on tile `tile` of the message of view sc: the callback set by
\* start_game runs game.view.process_tile_click
process_tile_click(sc, tile) ==
    /\ views[sc].wired
    /\ CanSpawn
    /\ LET s == games[views[sc].game].view
           v == views[s]
       IN  IF v.game_over \/ tile \in v.revealed
           THEN UNCHANGED << views, cash, ledger, stats, tasks >>
           ELSE IF tile \in v.mines
           THEN /\ views' = [views EXCEPT ![s] =
                       [v EXCEPT !.revealed = @ \cup {tile} \cup v.mines,
                                 !.game_over = TRUE, !.won = FALSE]]
                /\ record_mines_stats(s, v.bet, 0, v.mines_count, v.tiles_revealed)
                /\ Spawn(Task("click_pop", v.user_id, s, 0, "", FALSE))
                /\ UNCHANGED << cash, ledger >>
           ELSE LET k          == v.tiles_revealed + 1
                    multiplier == calculate_multiplier(safe_tiles(v), v.mines_count, k)
                    safe_view  == [v EXCEPT !.revealed = @ \cup {tile},
                                            !.tiles_revealed = k,
                                            !.current_multiplier = multiplier,
                                            !.potential_win = potential_win_of(v.bet, multiplier)]
                IN  IF k = safe_tiles(v)
                    THEN handle_victory(s, safe_view)
                    ELSE /\ views' = [views EXCEPT ![s] = safe_view]
                         /\ UNCHANGED << cash, ledger, stats, tasks >>
    /\ UNCHANGED << outage, active_games, games, modals, debits, pop_log, exit_log >>

\* the loss was recorded and shown: the entry is removed
click_pop(t) ==
    /\ t.pc = "click_pop"
    /\ pop_active_game(t.s, t.late)
    /\ Finish(t)
    /\ UNCHANGED << outage, games, views, modals, debits, cash, ledger, stats, exit_log >>

\* _handle_victory after update_user_balance: the statistics are written
victory_stats(t) ==
    /\ t.pc = "victory_stats"
    /\ record_mines_stats(t.s, views[t.s].bet, t.n, views[t.s].mines_count,
                          views[t.s].tiles_revealed)
    /\ Become(t, [t EXCEPT !.pc = "victory_pop"])
    /\ UNCHANGED << outage, active_games, games, views, modals, debits, cash, ledger,
                    pop_log, exit_log >>

\* _handle_victory after the message edit: the entry is removed
victory_pop(t) ==
    /\ t.pc = "victory_pop"
    /\ pop_active_game(t.s, t.late)
    /\ Finish(t)
    /\ UNCHANGED << outage, games, views, modals, debits, cash, ledger, stats, exit_log >>

\* a cashout that pays the stake back instead of the potential win
process_cashout_bet(s, v, arg) ==
    IF v.game_over \/ v.tiles_revealed = 0
    THEN /\ views' = [views EXCEPT ![s] = v]
         /\ UNCHANGED << cash, ledger, tasks >>
    ELSE LET winnings == v.bet
         IN  /\ views' = [views EXCEPT ![s] = v]
             /\ update_user_balance(v.user_id, s, winnings,
                    IF arg = "timeout" THEN "timeout_cashout" ELSE "cashout", v)
             /\ Spawn(Task("cashout_stats", v.user_id, s, winnings, arg, FALSE))

\* a cashout that does not ask for a revealed tile
process_cashout_any(s, v, arg) ==
    IF v.game_over
    THEN /\ views' = [views EXCEPT ![s] = v]
         /\ UNCHANGED << cash, ledger, tasks >>
    ELSE LET winnings == v.potential_win
         IN  /\ views' = [views EXCEPT ![s] = v]
             /\ update_user_balance(v.user_id, s, winnings,
                    IF arg = "timeout" THEN "timeout_cashout" ELSE "cashout", v)
             /\ Spawn(Task("cashout_stats", v.user_id, s, winnings, arg, FALSE))

\* _process_cashout up to its first await, on view s reading v
process_cashout(s, v, arg) ==
    IF v.game_over \/ v.tiles_revealed = 0
    THEN /\ views' = [views EXCEPT ![s] = v]
         /\ UNCHANGED << cash, ledger, tasks >>
    ELSE LET winnings == v.potential_win
         IN  /\ views' = [views EXCEPT ![s] = v]
             /\ update_user_balance(v.user_id, s, winnings,
                    IF arg = "timeout" THEN "timeout_cashout" ELSE "cashout", v)
             /\ Spawn(Task("cashout_stats", v.user_id, s, winnings, arg, FALSE))

\* the CASH OUT button of view s
cashout_callback(s) ==
    /\ views[s].exists
    /\ CanSpawn
    /\ process_cashout(s, views[s], "click")
    /\ UNCHANGED << outage, active_games, games, modals, debits, stats, pop_log, exit_log >>

\* a cashout that an exception of the statistics write ends
cashout_stats_raise(t) ==
    /\ t.pc = "cashout_stats"
    /\ record_mines_stats(t.s, views[t.s].bet, t.n, views[t.s].mines_count,
                          views[t.s].tiles_revealed)
    /\ IF outage = "stats"
       THEN Finish(t)
       ELSE Become(t, [t EXCEPT !.pc = "cashout_mark"])
    /\ UNCHANGED << outage, active_games, games, views, modals, debits, cash, ledger,
                    pop_log, exit_log >>

\* _process_cashout after update_user_balance: the statistics are written
cashout_stats(t) ==
    /\ t.pc = "cashout_stats"
    /\ record_mines_stats(t.s, views[t.s].bet, t.n, views[t.s].mines_count,
                          views[t.s].tiles_revealed)
    /\ Become(t, [t EXCEPT !.pc = "cashout_mark"])
    /\ UNCHANGED << outage, active_games, games, views, modals, debits, cash, ledger,
                    pop_log, exit_log >>

\* _process_cashout after record_mines_stats: the game is marked over and won
cashout_mark(t) ==
    /\ t.pc = "cashout_mark"
    /\ views' = [views EXCEPT ![t.s].game_over = TRUE, ![t.s].won = TRUE,
                              ![t.s].revealed = @ \cup views[t.s].mines]
    /\ Become(t, [t EXCEPT !.pc = "cashout_pop"])
    /\ UNCHANGED << outage, active_games, games, modals, debits, cash, ledger, stats,
                    pop_log, exit_log >>

\* _process_cashout after the message edit: the entry is removed; called by
\* on_timeout, that one then marks the game over and removes the entry again
cashout_pop(t) ==
    /\ t.pc = "cashout_pop"
    /\ pop_active_game(t.s, t.late)
    /\ IF t.arg = "timeout"
       THEN views' = [views EXCEPT ![t.s].game_over = TRUE]
       ELSE UNCHANGED views
    /\ Finish(t)
    /\ UNCHANGED << outage, games, modals, debits, cash, ledger, stats, exit_log >>
\* the EXIT button of view s, up to its first await
exit_callback(s) ==
    /\ views[s].exists
    /\ CanSpawn
    /\ LET v == views[s]
       IN  /\ exit_log' = IF v.game_over THEN exit_log
                          ELSE exit_log \cup {[ s |-> s, tiles_revealed |-> v.tiles_revealed,
                                                credits |-> Len(ledger[s]) ]}
           /\ IF v.tiles_revealed = 0 /\ ~v.game_over
              THEN /\ update_user_balance(v.user_id, s, v.bet, "exit_refund", v)
                   /\ Spawn(Task("exit_reveal", v.user_id, s, 0, "", v.game_over))
                   /\ UNCHANGED views
              ELSE /\ views' = [views EXCEPT ![s].revealed = Tiles]
                   /\ Spawn(Task("exit_over", v.user_id, s, 0, "", v.game_over))
                   /\ UNCHANGED << cash, ledger >>
    /\ UNCHANGED << outage, active_games, games, modals, debits, stats, pop_log >>

\* exit_callback after the refund: every tile is revealed, the message edited
exit_reveal(t) ==
    /\ t.pc = "exit_reveal"
    /\ views' = [views EXCEPT ![t.s].revealed = Tiles]
    /\ Become(t, [t EXCEPT !.pc = "exit_over"])
    /\ UNCHANGED << outage, active_games, games, modals, debits, cash, ledger, stats,
                    pop_log, exit_log >>

\* exit_callback after the message edit: the game is over, the entry removed
exit_over(t) ==
    /\ t.pc = "exit_over"
    /\ views' = [views EXCEPT ![t.s].game_over = TRUE]
    /\ pop_active_game(t.s, t.late)
    /\ Finish(t)
    /\ UNCHANGED << outage, games, modals, debits, cash, ledger, stats, exit_log >>

\* the view's timeout fires (once per view), up to the first await
on_timeout(s) ==
    /\ views[s].timer = "armed"
    /\ CanSpawn
    /\ LET v == [views[s] EXCEPT !.timer = IF views[s].game_over THEN "ignored" ELSE "fired"]
       IN  IF v.game_over
           THEN /\ views' = [views EXCEPT ![s] = v]
                /\ UNCHANGED << cash, ledger, tasks >>
           ELSE IF v.tiles_revealed > 0
           THEN process_cashout(s, v, "timeout")
           ELSE /\ views' = [views EXCEPT ![s] = v]
                /\ update_user_balance(v.user_id, s, v.bet, "timeout_refund", v)
                /\ Spawn(Task("timeout_reveal", v.user_id, s, 0, "", FALSE))
    /\ UNCHANGED << outage, active_games, games, modals, debits, stats, pop_log, exit_log >>

\* on_timeout after the refund: every tile is revealed, the message edited
timeout_reveal(t) ==
    /\ t.pc = "timeout_reveal"
    /\ views' = [views EXCEPT ![t.s].revealed = Tiles]
    /\ Become(t, [t EXCEPT !.pc = "timeout_over"])
    /\ UNCHANGED << outage, active_games, games, modals, debits, cash, ledger, stats,
                    pop_log, exit_log >>

\* on_timeout after the message edit: the game is over, the entry removed
timeout_over(t) ==
    /\ t.pc = "timeout_over"
    /\ views' = [views EXCEPT ![t.s].game_over = TRUE]
    /\ pop_active_game(t.s, t.late)
    /\ Finish(t)
    /\ UNCHANGED << outage, games, modals, debits, cash, ledger, stats, exit_log >>

(***************************************************************************)
(* The system: the player's actions, the timer, and the event loop         *)
(* resuming a suspended coroutine.                                         *)
(***************************************************************************)
Resume(t) ==
    \/ get_cash(t)
    \/ mines_debit(t)
    \/ mines_register(t)
    \/ mines_modal_failed(t)
    \/ start_wire(t)
    \/ click_pop(t)
    \/ victory_stats(t)
    \/ victory_pop(t)
    \/ cashout_stats(t)
    \/ cashout_mark(t)
    \/ cashout_pop(t)
    \/ exit_reveal(t)
    \/ exit_over(t)
    \/ timeout_reveal(t)
    \/ timeout_over(t)

EventLoop == \E t \in BagToSet(tasks) : Resume(t)
Timer == \E s \in SessionIds : on_timeout(s)

Next ==
    \/ \E user \in Users, bet \in BetInputs : mines(user, bet)
    \/ \E s \in SessionIds, text \in ModalInputs : modal_callback(s, text)
    \/ \E s \in SessionIds, tile \in ClickTiles : process_tile_click(s, tile)
    \/ \E s \in SessionIds : cashout_callback(s)
    \/ \E s \in SessionIds : exit_callback(s)
    \/ \E s \in SessionIds : on_timeout(s)
    \/ \E t \in BagToSet(tasks) : get_cash(t)
    \/ \E t \in BagToSet(tasks) : mines_debit(t)
    \/ \E t \in BagToSet(tasks) : mines_register(t)
    \/ \E t \in BagToSet(tasks) : mines_modal_failed(t)
    \/ \E t \in BagToSet(tasks) : start_wire(t)
    \/ \E t \in BagToSet(tasks) : click_pop(t)
    \/ \E t \in BagToSet(tasks) : victory_stats(t)
    \/ \E t \in BagToSet(tasks) : victory_pop(t)
    \/ \E t \in BagToSet(tasks) : cashout_stats(t)
    \/ \E t \in BagToSet(tasks) : cashout_mark(t)
    \/ \E t \in BagToSet(tasks) : cashout_pop(t)
    \/ \E t \in BagToSet(tasks) : exit_reveal(t)
    \/ \E t \in BagToSet(tasks) : exit_over(t)
    \/ \E t \in BagToSet(tasks) : timeout_reveal(t)
    \/ \E t \in BagToSet(tasks) : timeout_over(t)

Spec == Init /\ [][Next]_vars

\* the event loop resumes every coroutine whose await has returned, and the
\* timer of a view fires; the player need not act
FairSpec == Spec /\ WF_vars(EventLoop) /\ WF_vars(Timer)

(***************************************************************************)
(* The same system while one kind of call to the outside raises: the       *)
(* debits or the credits of economy_system.add_cash, or the statistics     *)
(* database.                                                               *)
(***************************************************************************)
Outages == {"debit", "credit", "stats"}

FaultInit == \E down \in Outages : Boot(down)

FaultSpec == FaultInit /\ [][Next]_vars

(***************************************************************************)
(* The same system with MinesCog.cog_unload.  An unload that finds nothing *)
(* to refund changes nothing here; one that does is followed by no new     *)
(* /mines command (the command goes with the cog), while the views, the    *)
(* modals and the suspended coroutines live on.                            *)
(***************************************************************************)
\* the users whose registered game has a view that is not over with no tile
\* revealed
Refundable ==
    {u \in DOMAIN active_games :
        LET game == games[active_games[u]]
        IN  /\ game.view # 0
            /\ ~views[game.view].game_over
            /\ views[game.view].tiles_revealed = 0}

\* cog_unload has created its refund tasks
Unloaded ==
    \/ Running("unload_refund") # {}
    \/ \E s \in SessionIds :
           \E i \in DOMAIN ledger[s] : ledger[s][i].path = "unload_refund"

\* cog_unload: a task update_user_balance(user_id, game.bet_amount) is created
\* for every such game; nothing else is touched
cog_unload ==
    /\ ~Unloaded
    /\ Refundable # {}
    /\ BagCardinality(tasks) + Cardinality(Refundable) <= MaxTasks
    /\ tasks' = tasks (+) SetToBag(
           {Task("unload_refund", u, games[active_games[u]].view,
                 games[active_games[u]].bet_amount, "", FALSE) : u \in Refundable})
    /\ UNCHANGED << outage, active_games, games, views, modals, debits, cash, ledger, stats,
                    pop_log, exit_log >>

\* the task created by cog_unload runs: the bet is credited
unload_refund(t) ==
    /\ t.pc = "unload_refund"
    /\ update_user_balance(t.user, t.s, t.n, "unload_refund", views[t.s])
    /\ Finish(t)
    /\ UNCHANGED << outage, active_games, games, views, modals, debits, stats,
                    pop_log, exit_log >>

UnloadNext ==
    \/ ~Unloaded /\ \E user \in Users, bet \in BetInputs : mines(user, bet)
    \/ \E s \in SessionIds, text \in ModalInputs : modal_callback(s, text)
    \/ \E s \in SessionIds, tile \in ClickTiles : process_tile_click(s, tile)
    \/ \E s \in SessionIds : cashout_callback(s)
    \/ \E s \in SessionIds : exit_callback(s)
    \/ \E s \in SessionIds : on_timeout(s)
    \/ \E t \in BagToSet(tasks) : get_cash(t)
    \/ \E t \in BagToSet(tasks) : mines_debit(t)
    \/ \E t \in BagToSet(tasks) : mines_register(t)
    \/ \E t \in BagToSet(tasks) : mines_modal_failed(t)
    \/ \E t \in BagToSet(tasks) : start_wire(t)
    \/ \E t \in BagToSet(tasks) : click_pop(t)
    \/ \E t \in BagToSet(tasks) : victory_stats(t)
    \/ \E t \in BagToSet(tasks) : victory_pop(t)
    \/ \E t \in BagToSet(tasks) : cashout_stats(t)
    \/ \E t \in BagToSet(tasks) : cashout_mark(t)
    \/ \E t \in BagToSet(tasks) : cashout_pop(t)
    \/ \E t \in BagToSet(tasks) : exit_reveal(t)
    \/ \E t \in BagToSet(tasks) : exit_over(t)
    \/ \E t \in BagToSet(tasks) : timeout_reveal(t)
    \/ \E t \in BagToSet(tasks) : timeout_over(t)
    \/ cog_unload
    \/ \E t \in BagToSet(tasks) : unload_refund(t)

UnloadSpec == Init /\ [][UnloadNext]_vars

(***************************************************************************)
(* Play: a game that has just been set up, for any stake and any mines     *)
(* count, and the tile clicks on it.  Every (mines_count, tiles_revealed)  *)
(* the grid allows is reached, so calculate_multiplier and the potential   *)
(* win are applied to all of them.                                         *)
(***************************************************************************)
PlayBets == {MIN_BET, 40, 100, 120, MAX_BET}
\* the sample random.sample is taken to return: the last mines_count positions
PlayPlacement(mines_count) == (TOTAL_TILES - mines_count)..(TOTAL_TILES - 1)

PlayInit ==
    \E bet \in PlayBets, mines_count \in MIN_MINES..MAX_MINES :
        /\ active_games = [u \in Users |-> 1]
        /\ games = [g \in SessionIds |->
               IF g = 1 THEN [exists |-> TRUE, author_id |-> 1, view |-> 1, bet_amount |-> bet]
               ELSE NoGame]
        /\ views = [s \in SessionIds |->
               IF s = 1
               THEN [MinesView(1, 1, bet, mines_count, PlayPlacement(mines_count))
                        EXCEPT !.wired = TRUE]
               ELSE NoView]
        /\ modals = [s \in SessionIds |-> IF s = 1 THEN "submitted" ELSE "none"]
        /\ debits = [s \in SessionIds |-> IF s = 1 THEN bet ELSE 0]
        /\ cash = [u \in Users |-> 0]
        /\ ledger = [s \in SessionIds |-> << >>]
        /\ stats = [s \in SessionIds |-> << >>]
        /\ tasks = EmptyBag
        /\ pop_log = {}
        /\ exit_log = {}
        /\ outage = "none"

PlayNext ==
    \/ \E tile \in Tiles : process_tile_click(1, tile)
    \/ \E t \in BagToSet(tasks) : click_pop(t)
    \/ \E t \in BagToSet(tasks) : victory_stats(t)
    \/ \E t \in BagToSet(tasks) : victory_pop(t)

PlaySpec == PlayInit /\ [][PlayNext]_vars
(***************************************************************************)
(* Vocabulary of the properties.                                           *)
(***************************************************************************)
Credits(s) == ledger[s]
ViewPaths == {"win", "cashout", "timeout_cashout", "exit_refund", "timeout_refund"}
Debited(s) == debits[s] # 0
\* a terminal outcome of session s exists: a credit (payout or refund) was
\* issued, or its view is over
Settled(s) == Credits(s) # << >> \/ (views[s].exists /\ views[s].game_over)
\* the hazard-count input was rejected and the bet refunded
Expired(s) == modals[s] = "submitted" /\ ~views[s].exists
Terminal(s) == (views[s].exists /\ views[s].game_over) \/ Expired(s)
\* the registry holds the game of start command g
Registered(g) == \E u \in DOMAIN active_games : active_games[u] = g
\* a coroutine of session s is suspended
Busy(s) == \E t \in BagToSet(tasks) : t.s = s
TimeoutRunning(s) ==
    \E t \in BagToSet(tasks) :
        t.s = s /\ (t.arg = "timeout" \/ t.pc \in {"timeout_reveal", "timeout_over"})

\* floor(bet * min(0.95 * (TOTAL_TILES / (TOTAL_TILES - mines_count)) ^ k, 1000))
\* in exact arithmetic
RECURSIVE BigDivTimes(_, _, _)
BigDivTimes(a, d, k) == IF k = 0 THEN a ELSE BigDivTimes(BigDiv(a, d)[1], d, k - 1)

ExactPayout(bet, mines_count, k) ==
    IF k = 0 THEN bet
    ELSE LET num == BigMul(BigFromInt(bet * 95), BigPow(BigFromInt(TOTAL_TILES), k))
             q   == BigDivTimes(BigDiv(num, 100)[1], TOTAL_TILES - mines_count, k)
         IN  IF BigCompare(q, BigFromInt(bet * 1000)) > 0 THEN bet * 1000 ELSE BigToInt(q)

(***************************************************************************)
(* C1.  Under every interleaving of the handlers of a session, the ledger  *)
(* is credited at most once for that session, payouts and refunds counted. *)
(***************************************************************************)
C1_CreditedAtMostOnce == \A s \in SessionIds : Len(Credits(s)) <= 1

(***************************************************************************)
(* C2.  On every settlement path of a view (win, cashout, timeout          *)
(* cashout, exit refund, timeout refund) game_over is already set when the *)
(* credit call is issued.                                                  *)
(***************************************************************************)
C2_OverBeforeCredit ==
    \A s \in SessionIds : \A i \in DOMAIN Credits(s) :
        Credits(s)[i].path \in ViewPaths => Credits(s)[i].game_over

(***************************************************************************)
(* C3.  At most one start command of a player has debited a bet while no   *)
(* earlier session of that player is settled.                              *)
(***************************************************************************)
C3_OneUnsettledSession ==
    Cardinality({s \in SessionIds : Debited(s) /\ ~Settled(s)}) <= 1

(***************************************************************************)
(* C4.  Every debited bet is eventually followed by a terminal outcome of  *)
(* its session, also when the hazard count is never submitted.             *)
(***************************************************************************)
C4_DebitLeadsToOutcome == \A s \in SessionIds : Debited(s) ~> Settled(s)

(***************************************************************************)
(* C5.  Once a session is terminal (its view is over, or its hazard-count  *)
(* input was rejected) and its handlers have returned, the player's entry  *)
(* for it is gone from active_games.                                       *)
(***************************************************************************)
C5_TerminalIsUnregistered ==
    \A s \in SessionIds : (Terminal(s) /\ ~Busy(s)) => ~Registered(s)

(***************************************************************************)
(* C6.  An entry of active_games is removed only by a handler of the view  *)
(* of the game the entry holds, never by a handler of another session's    *)
(* view.                                                                   *)
(***************************************************************************)
C6_RemovedByOwnerOnly == \A e \in pop_log : views[e.by].game = e.game

(***************************************************************************)
(* C7.  A cashout at k > 0 revealed tiles credits exactly                  *)
(* floor(bet * multiplier(k)) and leaves the session's game unregistered   *)
(* once it has returned; with 3 hazards and bet 100 the potential payout   *)
(* is 142 after one safe reveal, 213 after two, and a cashout after two    *)
(* credits 213.                                                            *)
(***************************************************************************)
C7_CashoutCreditsExactFloor ==
    \A s \in SessionIds :
        /\ \A i \in DOMAIN Credits(s) :
               Credits(s)[i].path = "cashout" =>
                   /\ Credits(s)[i].tiles_revealed > 0
                   /\ Credits(s)[i].amount =
                          ExactPayout(views[s].bet, views[s].mines_count,
                                      Credits(s)[i].tiles_revealed)
                   /\ (~Busy(s) => ~Registered(views[s].game))
        /\ (views[s].bet = 100 /\ views[s].mines_count = 3) =>
               /\ views[s].tiles_revealed = 1 => views[s].potential_win = 142
               /\ views[s].tiles_revealed = 2 => views[s].potential_win = 213
               /\ \A i \in DOMAIN Credits(s) :
                      (Credits(s)[i].path = "cashout" /\ Credits(s)[i].tiles_revealed = 2)
                          => Credits(s)[i].amount = 213

(***************************************************************************)
(* C8.  An exit accepted on a view that is not over credits exactly the    *)
(* bet when no tile was revealed, and is followed by no credit at all when *)
(* tiles were revealed, whatever other handlers run meanwhile.             *)
(***************************************************************************)
C8_ExitRefundsOrForfeits ==
    \A e \in exit_log :
        IF e.tiles_revealed = 0
        THEN /\ Len(Credits(e.s)) >= e.credits + 1
             /\ Credits(e.s)[e.credits + 1].path = "exit_refund"
             /\ Credits(e.s)[e.credits + 1].amount = views[e.s].bet
        ELSE Len(Credits(e.s)) = e.credits
(***************************************************************************)
(* C9.  The timeout of a view that is not over credits the potential win   *)
(* of that moment when tiles were revealed and the bet when none was; it   *)
(* credits once, and when it has returned the view is over and its game is *)
(* not in active_games.                                                    *)
(***************************************************************************)
TimeoutCredits(s) ==
    {i \in DOMAIN Credits(s) : Credits(s)[i].path \in {"timeout_cashout", "timeout_refund"}}

C9_TimeoutSettles ==
    \A s \in SessionIds :
        /\ \A i \in TimeoutCredits(s) :
               /\ views[s].timer = "fired"
               /\ ~Credits(s)[i].game_over
               /\ IF Credits(s)[i].tiles_revealed > 0
                  THEN /\ Credits(s)[i].path = "timeout_cashout"
                       /\ Credits(s)[i].amount = Credits(s)[i].potential_win
                  ELSE /\ Credits(s)[i].path = "timeout_refund"
                       /\ Credits(s)[i].amount = views[s].bet
        /\ views[s].timer = "fired" =>
               /\ Cardinality(TimeoutCredits(s)) = 1
               /\ ~TimeoutRunning(s) =>
                      views[s].game_over /\ ~Registered(views[s].game)
        /\ views[s].timer # "fired" => TimeoutCredits(s) = {}

C9_TimeoutCashoutReturned ==
    \E s \in SessionIds :
        /\ views[s].timer = "fired"
        /\ ~TimeoutRunning(s)
        /\ \E i \in TimeoutCredits(s) :
               Credits(s)[i].tiles_revealed > 0 /\ Credits(s)[i].amount > views[s].bet

(***************************************************************************)
(* C10.  A handler entered on a view that is already over changes nothing: *)
(* it makes no ledger call and leaves game_over, won, tiles_revealed,      *)
(* current_multiplier, potential_win and active_games as they are.         *)
(***************************************************************************)
Outcome(v) ==
    << v.game_over, v.won, v.tiles_revealed, v.current_multiplier, v.potential_win >>

\* a step of a handler that found its view over when it was entered
LateHandlerStep ==
    \/ \E s \in SessionIds :
           /\ views[s].exists /\ views[s].game_over
           /\ \E t \in BagToSet(tasks') : t.s = s /\ t.late /\ ~BagIn(t, tasks)
    \/ \E t \in BagToSet(tasks) : t.late /\ tasks' = tasks (-) SetToBag({t})
    \/ \E s \in SessionIds :
           views[s].game_over /\ views[s].timer = "armed" /\ views'[s].timer = "ignored"

C10_LateHandlersAreNoOps ==
    [][LateHandlerStep =>
           /\ ledger' = ledger
           /\ cash' = cash
           /\ active_games' = active_games
           /\ \A s \in SessionIds : Outcome(views'[s]) = Outcome(views[s])]_vars
(***************************************************************************)
(* C11.  The reveal of the last safe tile makes the view over and won in   *)
(* the same step and credits floor(bet * multiplier(safe_tiles)); with 8   *)
(* hazards the first safe reveal already wins.                             *)
(***************************************************************************)
WinCredits(s) == {i \in DOMAIN Credits(s) : Credits(s)[i].path = "win"}

C11_FullClearWins ==
    \A s \in SessionIds :
        /\ (views[s].exists /\ views[s].tiles_revealed = safe_tiles(views[s])) =>
               /\ views[s].game_over /\ views[s].won
               /\ WinCredits(s) # {}
        /\ (views[s].mines_count = MAX_MINES /\ views[s].tiles_revealed > 0) =>
               views[s].game_over /\ views[s].won
        /\ \A i \in WinCredits(s) :
               /\ Credits(s)[i].game_over
               /\ Credits(s)[i].tiles_revealed = safe_tiles(views[s])
               /\ Credits(s)[i].amount =
                      ExactPayout(views[s].bet, views[s].mines_count, safe_tiles(views[s]))
(***************************************************************************)
(* C12.  A view that is not over has 0 <= tiles_revealed < safe_tiles and  *)
(* no revealed mine, and tiles_revealed never exceeds safe_tiles.          *)
(***************************************************************************)
C12_ActiveViewShape ==
    \A s \in SessionIds :
        views[s].exists =>
            /\ views[s].tiles_revealed <= safe_tiles(views[s])
            /\ ~views[s].game_over =>
                   /\ 0 <= views[s].tiles_revealed
                   /\ views[s].tiles_revealed < safe_tiles(views[s])
                   /\ views[s].revealed \cap views[s].mines = {}
(***************************************************************************)
(* C13.  A click that hits a mine on a view that is not over makes the     *)
(* view over and lost in the same step, reveals every mine and credits     *)
(* nothing; when the handler has returned the game is not in active_games. *)
(***************************************************************************)
\* the loss of view s was recorded (the only statistics row with no win)
Lost(s) == \E i \in DOMAIN stats[s] : stats[s][i].win = 0
LossRunning(s) == \E t \in BagToSet(tasks) : t.s = s /\ t.pc = "click_pop"

C13_HazardLoses ==
    /\ [](\A s \in SessionIds :
             Lost(s) =>
                 /\ views[s].game_over
                 /\ views[s].mines \subseteq views[s].revealed
                 /\ ~LossRunning(s) => ~Registered(views[s].game))
    /\ [][\A s \in SessionIds :
             (~Lost(s) /\ Lost(s)') =>
                 /\ ~views[s].game_over
                 /\ views'[s].game_over /\ ~views'[s].won
                 /\ views[s].mines \subseteq views'[s].revealed
                 /\ ledger' = ledger
                 /\ cash' = cash]_vars

C13_LossReturned ==
    \E s \in SessionIds :
        /\ Lost(s) /\ ~LossRunning(s)
        /\ Credits(s) = << >>
        /\ views[s].mines_count > 1
        /\ ~Registered(views[s].game)
(***************************************************************************)
(* C14.  calculate_multiplier returns 1.0 for no revealed tile and         *)
(* otherwise min(0.95 * (TOTAL_TILES / (TOTAL_TILES - mines_count)) ^ k,   *)
(* 1000): the double it returns is that exact value up to the rounding of  *)
(* its operations (relative error at most 2^-50), for every mines count    *)
(* 1..8 and every k up to the number of safe tiles.                        *)
(***************************************************************************)
\* the exact value as a fraction << numerator, denominator >>
ExactMultiplier(mines_count, k) ==
    LET n == BigMul(BigFromInt(95), BigPow(BigFromInt(TOTAL_TILES), k))
        d == BigMul(BigFromInt(100), BigPow(BigFromInt(TOTAL_TILES - mines_count), k))
    IN  IF BigCompare(n, BigMul(BigFromInt(1000), d)) > 0
        THEN << BigFromInt(1000), << 1 >> >>
        ELSE << n, d >>

\* the double x is within 2^-50 (relative) of the fraction q
Close(x, q) ==
    LET X        == IF x.e >= 0 THEN BigShl(x.m, x.e) ELSE x.m
        S        == IF x.e >= 0 THEN << 1 >> ELSE BigShl(<< 1 >>, 0 - x.e)
        lhs      == BigMul(X, q[2])
        rhs      == BigMul(q[1], S)
        unit     == BigShl(<< 1 >>, 50)
        unitPlus == BigAddInt(unit, 1)
    IN  /\ BigCompare(BigMul(lhs, unit), BigMul(rhs, unitPlus)) <= 0
        /\ BigCompare(BigMul(lhs, unitPlus), BigMul(rhs, unit)) >= 0

C14_MultiplierFormula ==
    \A s \in SessionIds :
        views[s].exists =>
            LET v == views[s]
                r == calculate_multiplier(safe_tiles(v), v.mines_count, v.tiles_revealed)
            IN  /\ FloatCompare(calculate_multiplier(safe_tiles(v), v.mines_count, 0),
                                FloatFromInt(1)) = 0
                /\ FloatCompare(v.current_multiplier, r) = 0
                /\ v.tiles_revealed > 0 =>
                       Close(r, ExactMultiplier(v.mines_count, v.tiles_revealed))

C14_LargestMultiplier ==
    \E s \in SessionIds :
        /\ views[s].mines_count = 6 /\ views[s].tiles_revealed = 3
        /\ FloatCompare(views[s].current_multiplier, FloatFromInt(25)) > 0

(***************************************************************************)
(* C15.  The multiplier never decreases when a tile is revealed, the first *)
(* reveal included, so it is never below 1.0; and it never exceeds 1000.0. *)
(***************************************************************************)
C15_MultiplierMonotone ==
    /\ [](\A s \in SessionIds :
             views[s].exists =>
                 /\ FloatCompare(views[s].current_multiplier, FloatFromInt(1)) >= 0
                 /\ FloatCompare(views[s].current_multiplier, FloatFromInt(1000)) <= 0)
    /\ [][\A s \in SessionIds :
             (views[s].exists /\ views'[s].tiles_revealed = views[s].tiles_revealed + 1) =>
                 /\ FloatCompare(views'[s].current_multiplier,
                                 views[s].current_multiplier) >= 0
                 /\ FloatCompare(
                        calculate_multiplier(safe_tiles(views[s]), views[s].mines_count,
                                             views'[s].tiles_revealed),
                        calculate_multiplier(safe_tiles(views[s]), views[s].mines_count,
                                             views[s].tiles_revealed)) >= 0]_vars

C15_AllSafeTilesOfOneMine ==
    \E s \in SessionIds :
        /\ views[s].mines_count = MIN_MINES
        /\ views[s].tiles_revealed = safe_tiles(views[s])
        /\ FloatCompare(views[s].current_multiplier, FloatFromInt(2)) > 0
(***************************************************************************)
(* C16.  In every reachable state the potential win of a view is           *)
(* floor(bet * multiplier(tiles_revealed)), the bet itself while nothing   *)
(* is revealed, and every amount credited as a payout is at most           *)
(* bet * 1000.                                                             *)
(***************************************************************************)
PayoutPaths == {"win", "cashout", "timeout_cashout"}

C16_PotentialWinIsFloor ==
    \A s \in SessionIds :
        views[s].exists =>
            /\ views[s].tiles_revealed = 0 => views[s].potential_win = views[s].bet
            /\ views[s].potential_win =
                   ExactPayout(views[s].bet, views[s].mines_count, views[s].tiles_revealed)
            /\ \A i \in DOMAIN Credits(s) :
                   Credits(s)[i].path \in PayoutPaths =>
                       Credits(s)[i].amount <= views[s].bet * 1000
(***************************************************************************)
(* C17.  However often and in whatever order a tile is clicked, it is      *)
(* determined once: a revealed tile stays revealed, tiles_revealed grows   *)
(* only by one and only in a step that reveals a safe tile not revealed    *)
(* before, a win is credited and a loss recorded only in a step that       *)
(* reveals a new tile, so a click on a revealed tile changes nothing.      *)
(***************************************************************************)
C17_TileDeterminedOnce ==
    /\ [](\A s \in SessionIds :
             views[s].exists =>
                 views[s].tiles_revealed <=
                     Cardinality(views[s].revealed \ views[s].mines))
    /\ [][\A s \in SessionIds :
             views[s].exists =>
                 /\ views[s].revealed \subseteq views'[s].revealed
                 /\ views'[s].mines = views[s].mines
                 /\ views'[s].tiles_revealed # views[s].tiles_revealed =>
                        /\ views'[s].tiles_revealed = views[s].tiles_revealed + 1
                        /\ \E tile \in Tiles \ (views[s].revealed \cup views[s].mines) :
                               views'[s].revealed = views[s].revealed \cup {tile}
                 /\ WinCredits(s)' # WinCredits(s) =>
                        views'[s].tiles_revealed = views[s].tiles_revealed + 1
                 /\ (~Lost(s) /\ Lost(s)') =>
                        \E tile \in views[s].mines \ views[s].revealed :
                            tile \in views'[s].revealed]_vars

C17_RevealedTileClickable ==
    \E s \in SessionIds :
        /\ views[s].wired /\ ~views[s].game_over
        /\ views[s].tiles_revealed = 2
        /\ Cardinality(views[s].revealed \cap ClickTiles) = 2
        /\ CanSpawn
(***************************************************************************)
(* C18.  A cashout asked for on a view that is not over and has no         *)
(* revealed tile is refused: no step taken while the view is in that state *)
(* credits a cashout or starts one, so the view stays as it is and stays   *)
(* registered; every cashout credit was issued with a revealed tile on a   *)
(* view that was not over.                                                 *)
(***************************************************************************)
Untouched(s) == views[s].exists /\ ~views[s].game_over /\ views[s].tiles_revealed = 0
CashoutsOf(s) ==
    BagCardinality([t \in {x \in BagToSet(tasks) : x.s = s /\ x.pc = "cashout_stats"}
                       |-> tasks[t]])

C18_NothingToCashOut ==
    /\ [](\A s \in SessionIds :
             /\ \A i \in DOMAIN Credits(s) :
                    Credits(s)[i].path = "cashout" =>
                        Credits(s)[i].tiles_revealed > 0 /\ ~Credits(s)[i].game_over
             /\ Untouched(s) => CashoutsOf(s) = 0)
    /\ [][\A s \in SessionIds :
             Untouched(s) =>
                 /\ CashoutsOf(s)' = 0
                 /\ \A i \in DOMAIN ledger'[s] : ledger'[s][i].path # "cashout"]_vars

C18_CashoutRefusable ==
    \E s \in SessionIds :
        /\ Untouched(s) /\ views[s].wired
        /\ CanSpawn
        /\ Registered(views[s].game)
        /\ Credits(s) = << >>
(***************************************************************************)
(* C19.  A start command whose bet is below MIN_BET, above MAX_BET or      *)
(* above the balance it read is refused: the balance, the debits and       *)
(* active_games stay as they are and the command ends; any other bet is    *)
(* debited once, unless add_cash raises and the command ends the same way. *)
(* So every debited bet lies in MIN_BET..MAX_BET.                          *)
(***************************************************************************)
\* the command t, suspended in get_cash, is resumed in this step
Resumed(t) == t.pc = "mines_bet" /\ CopiesIn(t, tasks') < CopiesIn(t, tasks)
StartRefused ==
    /\ UNCHANGED << cash, debits, active_games, games, modals >>
    /\ BagCardinality(tasks') = BagCardinality(tasks) - 1

C19_BetWithinLimits ==
    /\ [](\A s \in SessionIds :
            Debited(s) => debits[s] >= MIN_BET /\ debits[s] <= MAX_BET)
    /\ [][\A t \in BagToSet(tasks) :
             (Resumed(t) /\ t.arg \in {"all", "amount"}) =>
                 LET bet == IF t.arg = "all" THEN t.cash ELSE t.n
                 IN  IF bet < MIN_BET \/ bet > MAX_BET \/ bet > t.cash
                     THEN StartRefused
                     ELSE \/ StartRefused
                          \/ /\ cash'[t.user] = cash[t.user] - bet
                             /\ \E s \in SessionIds :
                                    /\ ~Debited(s)
                                    /\ debits' = [debits EXCEPT ![s] = bet]]_vars

C19_BetAboveBalanceAsked ==
    /\ \E t \in BagToSet(tasks) :
           /\ t.pc = "mines_bet" /\ t.arg = "amount"
           /\ t.n > t.cash /\ t.n <= MAX_BET
           /\ t.cash >= MIN_BET
    /\ \E s \in SessionIds : Debited(s)

(***************************************************************************)
(* C20.  A start command whose bet text is malformed (the parser returns   *)
(* nothing, or raises) is refused before the balance is touched: no debit, *)
(* no session, no entry in active_games.                                   *)
(***************************************************************************)
C20_MalformedBetRefused ==
    [][\A t \in BagToSet(tasks) :
          (Resumed(t) /\ t.arg \in {"none", "raise"}) => StartRefused]_vars
(***************************************************************************)
(* C21.  A modal submission that is not an integer in MIN_MINES..MAX_MINES *)
(* builds no view: the step that takes the submission appends exactly one  *)
(* refund of the debited bet to the session's ledger, and that refund      *)
(* stays the session's only credit.  Every view that exists has a mines    *)
(* count in MIN_MINES..MAX_MINES, so at least one safe tile.               *)
(***************************************************************************)
ModalRefunded(s) ==
    \E i \in DOMAIN ledger[s] : ledger[s][i].path = "modal_refund"

C21_InvalidCountRefunded ==
    /\ [](\A s \in SessionIds :
            /\ views[s].exists =>
                   /\ views[s].mines_count \in MIN_MINES..MAX_MINES
                   /\ safe_tiles(views[s]) >= 1
            /\ ModalRefunded(s) =>
                   /\ ~views[s].exists
                   /\ Len(ledger[s]) = 1
                   /\ ledger[s][1].amount = debits[s])
    /\ [][\A s \in SessionIds :
            (modals[s] = "open" /\ modals'[s] = "submitted" /\ ~views'[s].exists) =>
                /\ Len(ledger'[s]) = Len(ledger[s]) + 1
                /\ ledger'[s][Len(ledger'[s])].amount = debits[s]
                /\ cash' = [cash EXCEPT ![games[s].author_id] = @ + debits[s]]]_vars

\* a rejected submission has been refunded and the balance is whole again
C21_InvalidCountSubmitted ==
    \E s \in SessionIds :
        /\ ModalRefunded(s)
        /\ modals[s] = "submitted"
        /\ cash[games[s].author_id] = InitialBalance

(***************************************************************************)
(* C22.  While the credits of the economy system raise, every credit that  *)
(* a settlement of a view issued and that raised is issued again with      *)
(* success before the session rests terminal (the handlers return nothing  *)
(* to their caller, so a retry is the one way the amount is not dropped).  *)
(***************************************************************************)
Retried(s, i) ==
    \E j \in DOMAIN ledger[s] :
        j > i /\ ledger[s][j].ok /\ ledger[s][j].amount = ledger[s][i].amount

C22_FailedCreditRetried ==
    \A s \in SessionIds :
        (views[s].exists /\ views[s].game_over /\ ~Busy(s)) =>
            \A i \in DOMAIN ledger[s] : ~ledger[s][i].ok => Retried(s, i)

(***************************************************************************)
(* C23.  While the debits of the economy system raise, a start command     *)
(* whose bet is valid ends where its add_cash raised: the balance is as it *)
(* was, no session is allocated, no game or modal is made and              *)
(* active_games stays empty.                                               *)
(***************************************************************************)
C23_FailedDebitAborts ==
    /\ [](outage = "debit" =>
            /\ active_games = EmptyDict
            /\ \A u \in Users : cash[u] = InitialBalance
            /\ \A s \in SessionIds :
                   ~Debited(s) /\ ~games[s].exists /\ modals[s] = "none" /\ ~views[s].exists)
    /\ [][\A t \in BagToSet(tasks) :
             (outage = "debit" /\ Resumed(t)) => StartRefused]_vars

\* a start command with a valid bet is about to debit while the debits raise
C23_DebitAboutToFail ==
    /\ outage = "debit"
    /\ \E t \in BagToSet(tasks) :
           /\ t.pc = "mines_bet"
           /\ ~bet_rejected(t.arg, parse_bet(t.arg, t.n, t.cash), t.cash)

(***************************************************************************)
(* C24.  While the statistics database raises, no row is written and the   *)
(* games end as they do otherwise: a handler that has called               *)
(* record_mines_stats goes on to its next step and leaves balance, ledger  *)
(* and views as they are; once the handlers of a view with a payout have   *)
(* returned, the payout is credited, the view is over and its game is out  *)
(* of active_games; so is the game of every view that is over.             *)
(***************************************************************************)
PaidOut(s) ==
    \E i \in DOMAIN ledger[s] : ledger[s][i].path \in PayoutPaths /\ ledger[s][i].ok

C24_StatsFailureSwallowed ==
    /\ [](outage = "stats" =>
            \A s \in SessionIds :
                /\ stats[s] = << >>
                /\ (views[s].exists /\ ~Busy(s) /\ PaidOut(s)) => views[s].game_over
                /\ (views[s].exists /\ ~Busy(s) /\ views[s].game_over) =>
                       ~Registered(views[s].game))
    /\ [][\A t \in BagToSet(tasks) :
             ( /\ outage = "stats"
               /\ t.pc \in {"cashout_stats", "victory_stats"}
               /\ CopiesIn(t, tasks') < CopiesIn(t, tasks) ) =>
                 /\ UNCHANGED << cash, ledger, views, active_games >>
                 /\ \E u \in BagToSet(tasks') :
                        /\ u.s = t.s
                        /\ u.pc = IF t.pc = "cashout_stats" THEN "cashout_mark"
                                  ELSE "victory_pop"
                        /\ CopiesIn(u, tasks') > CopiesIn(u, tasks)]_vars

\* a cashout was paid, marked over and unregistered though no row was written
C24_PaidWithoutStats ==
    /\ outage = "stats"
    /\ \E s \in SessionIds :
           /\ PaidOut(s)
           /\ views[s].game_over
           /\ ~Busy(s)
           /\ ~Registered(views[s].game)
           /\ cash[views[s].user_id] > InitialBalance

(***************************************************************************)
(* C25.  Once a view is over and its handlers have returned, the           *)
(* statistics hold a row of that session with its bet, its mines count and *)
(* its revealed tiles, whose win is the amount the session was credited    *)
(* on a payout path (0 for a loss, an exit or a timeout without payout).   *)
(***************************************************************************)
PayoutOf(s, win) ==
    \/ \E i \in DOMAIN ledger[s] :
           ledger[s][i].path \in PayoutPaths /\ ledger[s][i].amount = win
    \/ win = 0 /\ \A i \in DOMAIN ledger[s] : ledger[s][i].path \notin PayoutPaths

C25_SettlementRecorded ==
    \A s \in SessionIds :
        (views[s].exists /\ views[s].game_over /\ ~Busy(s)) =>
            \E i \in DOMAIN stats[s] :
                /\ stats[s][i].bet = views[s].bet
                /\ stats[s][i].mines_count = views[s].mines_count
                /\ stats[s][i].tiles_revealed = views[s].tiles_revealed
                /\ PayoutOf(s, stats[s][i].win)

(***************************************************************************)
(* C26.  Every game in active_games belongs to a start command whose bet   *)
(* has been debited, and the debit was made in an earlier step than the    *)
(* one that puts the entry in.                                             *)
(***************************************************************************)
C26_DebitedBeforeRegistered ==
    /\ [](\A u \in DOMAIN active_games :
            /\ Debited(active_games[u])
            /\ games[active_games[u]].exists)
    /\ [][\A g \in SessionIds :
             (~Registered(g) /\ Registered(g)') => (Debited(g) /\ debits'[g] = debits[g])]_vars

\* a game is registered, its modal open, and the balance is down by its bet
C26_RegisteredAfterDebit ==
    \E g \in SessionIds :
        /\ Registered(g)
        /\ modals[g] = "open"
        /\ \A u \in DOMAIN active_games : cash[u] = InitialBalance - debits[g]

(***************************************************************************)
(* C27.  A step that takes a game out of active_games leaves that game's   *)
(* session settled: its bet was refunded by the modal, or the view built   *)
(* for it is over or has been credited; and a start command gets past the  *)
(* registry check only when every game made so far is settled that way.    *)
(***************************************************************************)
SettledGame(g) ==
    \/ ledger[g] # << >>
    \/ /\ games[g].view # 0
       /\ views[games[g].view].game_over \/ ledger[games[g].view] # << >>

C27_RemovedAfterSettlement ==
    /\ [][\A u \in DOMAIN active_games, g \in SessionIds :
             (active_games[u] = g /\ u \notin DOMAIN active_games') =>
                 SettledGame(g)']_vars
    /\ [][InFlight("mines_cash")' > InFlight("mines_cash") =>
             \A g \in SessionIds : games[g].exists => SettledGame(g)]_vars

(***************************************************************************)
(* C28.  The mines of a view are mines_count distinct tiles of the grid,   *)
(* and no step changes them or the mines count once the view is built:     *)
(* clicks, the reveal of every mine on a loss, cashout, exit and timeout   *)
(* only add to the revealed tiles.                                         *)
(***************************************************************************)
C28_MinesFixed ==
    /\ [](\A s \in SessionIds :
            views[s].exists =>
                /\ views[s].mines \subseteq Tiles
                /\ Cardinality(views[s].mines) = views[s].mines_count)
    /\ [][\A s \in SessionIds :
             views[s].exists =>
                 /\ views'[s].mines = views[s].mines
                 /\ views'[s].mines_count = views[s].mines_count
                 /\ views[s].revealed \subseteq views'[s].revealed]_vars

\* a view of seven mines is over with every tile revealed
C28_SevenMinesShown ==
    \E s \in SessionIds :
        /\ views[s].exists
        /\ views[s].mines_count = 7
        /\ views[s].game_over
        /\ views[s].revealed = Tiles

(***************************************************************************)
(* C29.  record_mines_stats writes at most one row for a session, whatever *)
(* the order in which its clicks, cashouts, exits and its timeout run; so  *)
(* no session has a row of a loss (win = 0) and a row of a paid cashout.   *)
(***************************************************************************)
C29_RecordedAtMostOnce == \A s \in SessionIds : Len(stats[s]) <= 1

Uncapped(mines_count, k) ==
    FloatMul(FloatPow(FloatDivInt(TOTAL_TILES, TOTAL_TILES - mines_count), k), house_edge)

C31_CapNeverBinds ==
    \A s \in SessionIds :
        views[s].exists =>
            LET v    == views[s]
                k    == v.tiles_revealed
                peak == calculate_multiplier(3, 6, 3)
            IN  /\ k > 0 =>
                       /\ BigCompare(
                              BigMul(BigFromInt(95), BigPow(BigFromInt(TOTAL_TILES), k)),
                              BigMul(BigFromInt(100 * 1000),
                                     BigPow(BigFromInt(TOTAL_TILES - v.mines_count), k))) < 0
                       /\ FloatCompare(Uncapped(v.mines_count, k), max_multiplier) < 0
                       /\ FloatCompare(v.current_multiplier,
                                       FloatCanon(Uncapped(v.mines_count, k))) = 0
                /\ FloatCompare(v.current_multiplier, peak) <= 0
                /\ Close(peak, << BigFromInt(2565), BigFromInt(100) >>)
                /\ v.potential_win <= 26 * v.bet
                /\ \A i \in DOMAIN Credits(s) : Credits(s)[i].amount <= 26 * v.bet

\* the three safe tiles of a view of six mines are revealed and the win,
\* above 25 times the bet, is credited
C31_PeakPaid ==
    \E s \in SessionIds :
        /\ views[s].mines_count = 6 /\ views[s].tiles_revealed = 3
        /\ \E i \in WinCredits(s) : Credits(s)[i].amount > 25 * views[s].bet

(***************************************************************************)
(* C32.  The refund that cog_unload issues for a session is the last       *)
(* credit of that session: no exit, timeout, cashout or win credits it     *)
(* afterwards.                                                             *)
(***************************************************************************)
C32_UnloadRefundIsLast ==
    \A s \in SessionIds :
        \A i \in DOMAIN ledger[s] :
            ledger[s][i].path = "unload_refund" => i = Len(ledger[s])

====
